---------------------------- MODULE Spec2Model ----------------------------
(***************************************************************************)
(* Client-side model of lets-debate's frontend core:                       *)
(*   - the axios client of lib/api (request interceptor, response          *)
(*     interceptor with refresh-on-401 and retry), over the js-cookie      *)
(*     token store;                                                        *)
(*   - the zustand debate store (REST baseline, WebSocket lifecycle,       *)
(*     inbound event handler, start / pause / send intents).               *)
(* The server and the browser's transport are the environment: responses,  *)
(* events and transport transitions are nondeterministic inputs.           *)
(***************************************************************************)
EXTENDS Naturals, Sequences, FiniteSets, TLC

(***************************************************************************)
(* Bounds of the model.                                                    *)
(***************************************************************************)
\* Logical API requests that may be in flight together.
NReq == 2
\* Cap on the number of times one request is put on the wire (the code
\* sends at most twice; the cap only stops a non-terminating variant).
MaxSends == 3
\* WebSocket objects alive at the same time.
MaxSockets == 2
\* Messages the view holds.
MaxMsgs == 2
\* Tokens of one streamed fragment (and of one consensus draft).
MaxTokens == 2
\* Outbound frames written in one run.
MaxFrames == 2
\* Debate.max_turns of the debates the server holds.
MaxTurns == 2

VARIABLES
  cookies,     \* js-cookie store: access_token, refresh_token ("" = absent)
  req,         \* the logical requests issued through `api`
  auth,        \* the zustand state object of store/auth
  route,       \* what the route guard answered to the last navigation
  store,       \* the zustand state object of store/debate
  sockets,     \* the WebSocket objects created by connectWebSocket
  sent,        \* frames written with ws.send, counted by type
  pending,     \* REST calls of the debate store awaiting their response
  server,      \* the debate as the orchestrator holds it
  signalled,   \* whether the last intent call told its caller that it did
               \* nothing (a console.warn line or a return value)
  thrown,      \* whether the last REST operation of the debate store that
               \* failed rejected the promise it had returned
  fragTokens   \* history: tokens applied to the fragment opened by the last
               \* agent_thinking

userVars == <<auth, route>>
authVars == <<cookies, req, userVars>>
storeVars == <<store, sockets, sent, pending, server, signalled, thrown, fragTokens>>
vars == <<authVars, storeVars>>

(***************************************************************************)
(* PART I - lib/api: token store and interceptors                          *)
(***************************************************************************)
\* A cookie that is absent reads as undefined; both undefined and "" are
\* falsy in the `if (token)` / `if (!refreshToken)` tests.
NoToken == ""
Tokens == {"t1", "t2"}

ReqIds == 1..NReq

\* URLs the stores call through `api` (store/auth.ts, store/debate.ts).
Urls == {"/debates", "/auth/me", "/auth/login", "/auth/register", "/auth/refresh"}

\* HTTP outcomes of a call: success, authorization failure, other failure.
Statuses == {200, 401, 500}

Includes(s, p) ==
  \E i \in 1..(Len(s) - Len(p) + 1) : SubSeq(s, i, i + Len(p) - 1) = p

AuthPaths == {"/auth/login", "/auth/register", "/auth/refresh"}

\* Faulty variant of isAuthPath that forgets the refresh endpoint: C6 must
\* not hold of it.
isLoginOrRegisterPath(url) ==
  IF url = "" THEN FALSE
  ELSE \E path \in {"/auth/login", "/auth/register"} : Includes(url, path)

isAuthPath(url) ==
  IF url = "" THEN FALSE
  ELSE \E path \in AuthPaths : Includes(url, path)

\* Request interceptor: attach the access token when one is stored, else
\* leave the Authorization header the config already carries.
RequestInterceptor(authorization, jar) ==
  IF jar.access_token # NoToken THEN jar.access_token ELSE authorization

\* Faulty variant of ShouldRefresh that ignores the _retry mark: C5 must
\* not hold of it.
RefreshOnEvery401(status, retry) == status = 401

\* error.response?.status === 401 && !originalRequest._retry
ShouldRefresh(status, retry) == status = 401 /\ ~retry

\* Faulty variant of StoreTokens that keeps the old access token: C3 must
\* not hold of it.
StoreRefreshTokenOnly(jar, access_token, refresh_token) ==
  [access_token |-> jar.access_token,
   refresh_token |-> IF refresh_token # NoToken THEN refresh_token
                     ELSE jar.refresh_token]

\* Cookies.set("access_token", ...); if (refresh_token) Cookies.set(...)
StoreTokens(jar, access_token, refresh_token) ==
  [access_token |-> access_token,
   refresh_token |-> IF refresh_token # NoToken THEN refresh_token
                     ELSE jar.refresh_token]

\* Faulty variant of ClearTokens that leaves the refresh token: C4 must
\* not hold of it.
ClearAccessTokenOnly(jar) ==
  [access_token |-> NoToken, refresh_token |-> jar.refresh_token]

\* Cookies.remove("access_token"); Cookies.remove("refresh_token")
ClearTokens(jar) == [access_token |-> NoToken, refresh_token |-> NoToken]

IdleReq ==
  [url |-> "", st |-> "idle", _retry |-> FALSE, sends |-> 0, refreshes |-> 0,
   Authorization |-> NoToken]

\* A settled request no longer has a config on the wire.
Settle(q, how) == [q EXCEPT !.st = how, !.Authorization = NoToken]

\* The config of a new call after the request interceptor has run.
Call(q, url, jar) ==
  [q EXCEPT !.url = url, !.st = "sent", !.sends = 1,
            !.Authorization = RequestInterceptor(NoToken, jar)]

\* api.get / api.post / ...: the request interceptor runs, the call is sent.
ApiCall(r, url) ==
  /\ req[r].st = "idle"
  /\ req' = [req EXCEPT ![r] = Call(@, url, cookies)]
  /\ UNCHANGED <<cookies, userVars, storeVars>>

\* Response interceptor, success branch: (response) => response.
ResponseOk(r) ==
  /\ req[r].st = "sent"
  /\ req' = [req EXCEPT ![r] = Settle(@, "ok")]
  /\ UNCHANGED <<cookies, userVars, storeVars>>

\* Faulty variant of MissingRefreshToken that never finds the token
\* missing: C34 must not hold of it.
RefreshTokenAssumed(jar) == FALSE

\* const refreshToken = Cookies.get("refresh_token"); if (!refreshToken)
MissingRefreshToken(jar) == jar.refresh_token = NoToken

\* Response interceptor, error branch, up to its first await.
ResponseError(r, status) ==
  /\ req[r].st = "sent"
  /\ status # 200
  /\ IF isAuthPath(req[r].url)
     THEN /\ req' = [req EXCEPT ![r] = Settle(@, "rejected")]
          /\ UNCHANGED cookies
     ELSE IF ShouldRefresh(status, req[r]._retry)
     THEN IF MissingRefreshToken(cookies)
          THEN \* throw new Error("No refresh token available") -> catch
               /\ cookies' = ClearTokens(cookies)
               /\ req' = [req EXCEPT ![r] = Settle([@ EXCEPT !._retry = TRUE], "rejected")]
          ELSE \* await refreshApi.post("/auth/refresh", ...)
               /\ req' = [req EXCEPT ![r] =
                    [@ EXCEPT !._retry = TRUE, !.st = "refreshing",
                              !.refreshes = @ + 1]]
               /\ UNCHANGED cookies
     ELSE /\ req' = [req EXCEPT ![r] = Settle(@, "rejected")]
          /\ UNCHANGED cookies
  /\ UNCHANGED <<userVars, storeVars>>

\* The refresh call succeeded: store the pair, re-send the original call.
RefreshOk(r, access_token, refresh_token) ==
  /\ req[r].st = "refreshing"
  /\ req[r].sends < MaxSends
  /\ cookies' = StoreTokens(cookies, access_token, refresh_token)
  /\ req' = [req EXCEPT ![r] =
       [@ EXCEPT !.st = "sent", !.sends = @ + 1,
                 !.Authorization = RequestInterceptor(access_token, cookies')]]
  /\ UNCHANGED <<userVars, storeVars>>

\* The refresh call failed: catch (refreshError).
RefreshFail(r) ==
  /\ req[r].st = "refreshing"
  /\ cookies' = ClearTokens(cookies)
  /\ req' = [req EXCEPT ![r] = Settle(@, "rejected")]
  /\ UNCHANGED <<userVars, storeVars>>

AuthNext ==
  \E r \in ReqIds :
    \/ \E url \in Urls : ApiCall(r, url)
    \/ ResponseOk(r)
    \/ \E status \in Statuses : ResponseError(r, status)
    \/ \E a \in Tokens, rt \in Tokens \cup {NoToken} : RefreshOk(r, a, rt)
    \/ RefreshFail(r)

(***************************************************************************)
(* PART II - store/debate: the zustand debate store                        *)
(***************************************************************************)
\* null for the object-valued fields (currentDebate, streamingMessage).
NullObj == [null |-> TRUE]
\* wsConnection: null
NoSocket == 0
\* Debate.summary: null and '' are both falsy in `debate.summary || ''`.
NoSummary == ""

SocketIds == 1..MaxSockets
DebateIds == {"A", "B"}
DebateStatuses == {"pending", "active", "paused", "completed"}
FrameTypes == {"start_debate", "pause_debate", "human_message"}

\* A slot holding no WebSocket object; inbox holds the frames the server has
\* written to the connection that have not been delivered yet.
FreeSocket ==
  [debateId |-> "", readyState |-> "FREE", inbox |-> <<>>]

InitStore ==
  [debates |-> <<>>,
   currentDebate |-> NullObj,
   messages |-> <<>>,
   streamingMessage |-> NullObj,
   wsConnection |-> NoSocket,
   isLoading |-> FALSE,
   isDebateRunning |-> FALSE,
   isPausePending |-> FALSE,
   consensusSummary |-> "",
   isGeneratingConsensus |-> FALSE]

NoSockets == [c \in SocketIds |-> FreeSocket]
NothingSent == [t \in FrameTypes |-> 0]
NothingPending == {}
\* The orchestrator's debate A before its first turn: no turn played, no
\* conclusion drawn (consensus holds the tokens of the conclusion it streams,
\* summary the final text).
ServerInit == [current_turn |-> 0, consensus |-> <<>>, summary |-> NoSummary]

\* A REST call in flight: on its way to the server, or answered with a body
\* that is on its way back.
Request(op, id) == [op |-> op, id |-> id, body |-> [unanswered |-> TRUE]]
Response(op, id, data) == [op |-> op, id |-> id, body |-> [data |-> data]]
InFlight(op, id) == {call \in pending : call.op = op /\ call.id = id}

\* Faulty variant of Close that leaves the socket as it is: C30 must not
\* hold of it.
LeaveOpen(ws) == ws

\* WebSocket.close(): a connecting or open socket starts closing; on a
\* closing or closed socket it does nothing.
Close(ws) ==
  IF ws.readyState \in {"CONNECTING", "OPEN"}
  THEN [ws EXCEPT !.readyState = "CLOSING", !.inbox = <<>>]
  ELSE ws

CloseCurrent(s, socks) ==
  IF s.wsConnection # NoSocket
  THEN [socks EXCEPT ![s.wsConnection] = Close(@)]
  ELSE socks

IsOpen(s, socks) ==
  s.wsConnection # NoSocket /\ socks[s.wsConnection].readyState = "OPEN"

FramesSent == sent["start_debate"] + sent["pause_debate"] + sent["human_message"]

\* ---- REST baseline --------------------------------------------------------

\* fetchDebate(id), up to `await api.get`.
fetchDebate(id) ==
  /\ store' = [store EXCEPT !.isLoading = TRUE]
  /\ pending' = pending \cup {Request("fetchDebate", id)}
  /\ UNCHANGED <<sockets, sent, server, fragTokens, signalled, thrown, authVars>>

\* The server answers a call with the body `data`.
Answer(op, id, data) ==
  /\ Request(op, id) \in pending
  /\ pending' = (pending \ {Request(op, id)}) \cup {Response(op, id, data)}
  /\ UNCHANGED <<store, sockets, sent, server, fragTokens, signalled, thrown, authVars>>

\* Faulty variant of ApplyDebate that does not seed the summary: C36 must
\* not hold of it.
ApplyDebateOnly(s, debate) == [s EXCEPT !.currentDebate = debate]

\* set({currentDebate: debate, consensusSummary: debate.summary || ''})
ApplyDebate(s, debate) ==
  [s EXCEPT !.currentDebate = debate,
            !.consensusSummary = IF debate.summary # NoSummary
                                 THEN debate.summary ELSE ""]

\* The response of fetchDebate(id) arrives: try body, then finally.
FetchDebateOk(id, debate) ==
  /\ Response("fetchDebate", id, debate) \in pending
  /\ store' = [ApplyDebate(store, debate) EXCEPT !.isLoading = FALSE]
  /\ pending' = pending \ {Response("fetchDebate", id, debate)}
  /\ UNCHANGED <<sockets, sent, server, fragTokens, signalled, thrown, authVars>>

\* The call of fetchDebate(id) fails: catch (logged, nothing rethrown: the
\* promise resolves), then finally.
FetchDebateFail(id) ==
  /\ \E call \in InFlight("fetchDebate", id) : pending' = pending \ {call}
  /\ store' = [store EXCEPT !.isLoading = FALSE]
  /\ thrown' = FALSE
  /\ UNCHANGED <<sockets, sent, server, fragTokens, signalled, authVars>>

\* fetchMessages(debateId), up to `await api.get`.
fetchMessages(debateId) ==
  /\ pending' = pending \cup {Request("fetchMessages", debateId)}
  /\ UNCHANGED <<store, sockets, sent, server, fragTokens, signalled, thrown, authVars>>

\* {...msg, timestamp: msg.timestamp || msg.created_at}
Normalize(msg) ==
  [msg EXCEPT !.timestamp = IF msg.timestamp # "" THEN msg.timestamp
                            ELSE msg.created_at]

normalizedMessages(data) == [i \in 1..Len(data) |-> Normalize(data[i])]

\* The response of fetchMessages(debateId) arrives.
FetchMessagesOk(debateId, data) ==
  /\ Response("fetchMessages", debateId, data) \in pending
  /\ store' = [store EXCEPT !.messages = normalizedMessages(data)]
  /\ pending' = pending \ {Response("fetchMessages", debateId, data)}
  /\ UNCHANGED <<sockets, sent, server, fragTokens, signalled, thrown, authVars>>

\* The call of fetchMessages(debateId) fails: catch (logged, nothing
\* rethrown: the promise resolves).
FetchMessagesFail(debateId) ==
  /\ \E call \in InFlight("fetchMessages", debateId) : pending' = pending \ {call}
  /\ thrown' = FALSE
  /\ UNCHANGED <<store, sockets, sent, server, fragTokens, signalled, authVars>>

\* ---- connection lifecycle -------------------------------------------------

\* connectWebSocket(debateId): close the existing socket, create the new
\* one, install the handlers, set({wsConnection: ws}).
connectWebSocket(debateId) ==
  LET closed == CloseCurrent(store, sockets)
      free == {c \in SocketIds : closed[c].readyState \in {"FREE", "CLOSED"}}
  IN /\ free # {}
     /\ LET ws == CHOOSE c \in free : \A d \in free : c <= d
        IN /\ sockets' = [closed EXCEPT ![ws] =
                [debateId |-> debateId, readyState |-> "CONNECTING",
                 inbox |-> <<>>]]
           /\ store' = [store EXCEPT !.wsConnection = ws]
     /\ UNCHANGED <<sent, pending, server, fragTokens, signalled, thrown, authVars>>

\* disconnectWebSocket()
disconnectWebSocket ==
  /\ sockets' = CloseCurrent(store, sockets)
  /\ store' = IF store.wsConnection # NoSocket
              THEN [store EXCEPT !.wsConnection = NoSocket]
              ELSE store
  /\ UNCHANGED <<sent, pending, server, fragTokens, signalled, thrown, authVars>>

\* reset()
reset ==
  /\ sockets' = CloseCurrent(store, sockets)
  /\ store' = [store EXCEPT !.currentDebate = NullObj,
                            !.messages = <<>>,
                            !.streamingMessage = NullObj,
                            !.wsConnection = NoSocket,
                            !.isDebateRunning = FALSE,
                            !.isPausePending = FALSE,
                            !.consensusSummary = "",
                            !.isGeneratingConsensus = FALSE]
  /\ fragTokens' = <<>>
  /\ UNCHANGED <<sent, pending, server, signalled, thrown, authVars>>

\* The transport finishes its opening handshake: ws.onopen (a log line).
TransportOpen(c) ==
  /\ sockets[c].readyState = "CONNECTING"
  /\ sockets' = [sockets EXCEPT ![c].readyState = "OPEN"]
  /\ UNCHANGED <<store, sent, pending, server, fragTokens, signalled, thrown, authVars>>

\* Faulty variant of onclose with the identity test inverted: C18 must not
\* hold of it.
oncloseOfOtherSocket(s, c) ==
  IF s.wsConnection # c
  THEN [s EXCEPT !.wsConnection = NoSocket,
                 !.isDebateRunning = FALSE,
                 !.isPausePending = FALSE]
  ELSE s

\* Faulty variant of onclose that forgets the flags: C19 must not hold of
\* it.
oncloseKeepsFlags(s, c) ==
  IF s.wsConnection = c
  THEN [s EXCEPT !.wsConnection = NoSocket]
  ELSE s

\* Faulty variant of onclose without the identity test: C1 must not hold
\* of it.
oncloseOfAnySocket(s, c) ==
  [s EXCEPT !.wsConnection = NoSocket,
            !.isDebateRunning = FALSE,
            !.isPausePending = FALSE]

\* ws.onclose: only the socket that is still the store's connection clears
\* the store.
onclose(s, c) ==
  IF s.wsConnection = c
  THEN [s EXCEPT !.wsConnection = NoSocket,
                 !.isDebateRunning = FALSE,
                 !.isPausePending = FALSE]
  ELSE s

\* The transport of socket c is closed (by the server, by a failure, or at
\* the end of the closing handshake): ws.onclose runs. No handler of a
\* CLOSED socket runs again, so its slot can hold the next `new WebSocket`.
TransportClose(c) ==
  /\ sockets[c].readyState \in {"CONNECTING", "OPEN", "CLOSING"}
  /\ sockets' = [sockets EXCEPT ![c].readyState = "CLOSED", ![c].inbox = <<>>]
  /\ store' = onclose(store, c)
  /\ UNCHANGED <<sent, pending, server, fragTokens, signalled, thrown, authVars>>

\* ---- inbound events: ws.onmessage -----------------------------------------

\* Faulty variant of WithDebate that drops the update: C12 must not hold
\* of it.
KeepDebate(s, field, value) == s.currentDebate

\* Faulty variant of WithDebate that rewinds the turn counter with every
\* update: C23 must not hold of it.
WithDebateRewound(s, field, value) ==
  IF s.currentDebate # NullObj
  THEN [[s.currentDebate EXCEPT !.current_turn = 0] EXCEPT ![field] = value]
  ELSE NullObj

\* state.currentDebate ? {...state.currentDebate, [field]: value} : null
WithDebate(s, field, value) ==
  IF s.currentDebate # NullObj
  THEN [s.currentDebate EXCEPT ![field] = value]
  ELSE NullObj

AgentMessage(data) ==
  [id |-> data.message_id, agent_name |-> data.agent_name,
   content |-> data.content, turn_number |-> data.turn_number,
   timestamp |-> data.timestamp]

\* Faulty variant of HumanMessage that leaves the sender out: C32 must not
\* hold of it.
HumanMessageUntagged(data) ==
  [id |-> data.message_id, agent_name |-> "",
   content |-> data.content, turn_number |-> data.turn_number,
   timestamp |-> data.timestamp, username |-> ""]

HumanMessage(data) ==
  [id |-> data.message_id, agent_name |-> data.username,
   content |-> data.content, turn_number |-> data.turn_number,
   timestamp |-> data.timestamp, username |-> data.username]

\* Faulty variant of AppendToken that puts the token in front: C7 must not
\* hold of it.
PrependToken(content, token) == token \o content

\* content: state.streamingMessage.content + data.token
AppendToken(content, token) == content \o token

\* Faulty variant of AppendDraft that keeps only the last token: C13 must
\* not hold of it.
ReplaceDraft(text, token) == token

\* consensusSummary: state.consensusSummary + data.token
AppendDraft(text, token) == text \o token

\* Faulty variant of TokenCase that opens a fragment when none is open:
\* C31 must not hold of it.
TokenCaseOpensFragment(s, data) ==
  IF s.streamingMessage = NullObj
  THEN [s EXCEPT !.streamingMessage =
          [agentName |-> "", content |-> data.token]]
  ELSE [s EXCEPT !.streamingMessage.content = AppendToken(@, data.token)]

\* case 'agent_token': if (!state.streamingMessage) return state; else the
\* token is appended to the fragment's content.
TokenCase(s, data) ==
  IF s.streamingMessage = NullObj THEN s
  ELSE [s EXCEPT !.streamingMessage.content = AppendToken(@, data.token)]

\* Faulty variant of ErrorCase that gives the connection up: C22 must not
\* hold of it.
ErrorCaseDropsConnection(s) ==
  [s EXCEPT !.isDebateRunning = FALSE,
            !.isPausePending = FALSE,
            !.isGeneratingConsensus = FALSE,
            !.wsConnection = NoSocket]

\* case 'error': console.error, then the three flags are cleared.
ErrorCase(s) ==
  [s EXCEPT !.isDebateRunning = FALSE,
            !.isPausePending = FALSE,
            !.isGeneratingConsensus = FALSE]

\* Faulty variant of Ignored that treats what it does not know as an
\* error: C33 must not hold of it.
IgnoredAsError(s) == ErrorCase(s)

\* The cases that only log or break ('connected', 'human_injected', 'pong',
\* 'pause_acknowledged') and the default case: no set() is called.
Ignored(s) == s

\* The switch of ws.onmessage, as a function of the state and the frame.
HandleMessage(s, data) ==
  CASE data.type = "debate_started" ->
         [s EXCEPT !.isDebateRunning = TRUE,
                   !.isPausePending = FALSE,
                   !.currentDebate = WithDebate(s, "status", "active")]
    [] data.type = "agent_thinking" ->
         [s EXCEPT !.streamingMessage =
            [agentName |-> data.agent_name, content |-> ""]]
    [] data.type = "agent_token" -> TokenCase(s, data)
    [] data.type = "agent_spoke" ->
         [s EXCEPT !.streamingMessage = NullObj,
                   !.messages = Append(@, AgentMessage(data)),
                   !.currentDebate = WithDebate(s, "current_turn", data.turn_number)]
    [] data.type = "human_spoke" ->
         [s EXCEPT !.messages = Append(@, HumanMessage(data))]
    [] data.type = "debate_paused" ->
         [s EXCEPT !.isDebateRunning = FALSE,
                   !.isPausePending = FALSE,
                   !.currentDebate = WithDebate(s, "status", "paused")]
    [] data.type = "debate_completed" ->
         [s EXCEPT !.isDebateRunning = FALSE,
                   !.isPausePending = FALSE,
                   !.currentDebate = WithDebate(s, "status", "completed")]
    [] data.type = "consensus_started" ->
         [s EXCEPT !.isGeneratingConsensus = TRUE, !.consensusSummary = ""]
    [] data.type = "consensus_token" ->
         [s EXCEPT !.consensusSummary = AppendDraft(@, data.token)]
    [] data.type = "consensus_generated" ->
         [s EXCEPT !.isGeneratingConsensus = FALSE,
                   !.consensusSummary = data.summary,
                   !.currentDebate = WithDebate(s, "summary", data.summary)]
    [] data.type = "error" -> ErrorCase(s)
    \* connected, human_injected, pong, pause_acknowledged, default
    [] OTHER -> Ignored(s)

\* Frames the model lets one store hold: the lists and buffers are capped.
Fits(s, data) ==
  /\ data.type \in {"agent_spoke", "human_spoke"} => Len(s.messages) < MaxMsgs
  /\ (data.type = "agent_token" /\ s.streamingMessage # NullObj) =>
       Len(fragTokens) < MaxTokens
  /\ data.type = "consensus_token" => Len(s.consensusSummary) < MaxTokens

\* A frame of socket c reaches its onmessage handler. The browser fires
\* the message event only while readyState is OPEN: close() moves the
\* socket to CLOSING at once, and frames that arrive, or were queued, after
\* that are discarded by the user agent.
Delivers(ws) == ws.readyState = "OPEN"

Deliver(c, data) ==
  /\ Delivers(sockets[c])
  /\ Fits(store, data)
  /\ store' = HandleMessage(store, data)
  /\ fragTokens' =
       CASE data.type = "agent_thinking" -> <<>>
         [] data.type = "agent_token" /\ store.streamingMessage # NullObj ->
              Append(fragTokens, data.token)
         [] OTHER -> fragTokens
  /\ UNCHANGED <<sent, pending, server, signalled, thrown, authVars>>

\* ws.onmessage with a frame the server may send at any time.
OnMessage(c, data) == Deliver(c, data) /\ UNCHANGED sockets

\* ws.onmessage with the oldest frame in flight on socket c: one connection
\* delivers its frames in the order the orchestrator wrote them.
Receive(c) ==
  /\ sockets[c].inbox # <<>>
  /\ Deliver(c, Head(sockets[c].inbox))
  /\ sockets' = [sockets EXCEPT ![c].inbox = Tail(@)]

\* ---- the debate page ------------------------------------------------------

\* The open effect of DebateViewPage for debate id, which runs to its end
\* without yielding: useDebate.setState({isDebateRunning: false,
\* streamingMessage: null}); fetchDebate(id) and fetchMessages(id), each up
\* to its await; connectWebSocket(id).
OpenView(id) ==
  LET closed == CloseCurrent(store, sockets)
      free == {c \in SocketIds : closed[c].readyState \in {"FREE", "CLOSED"}}
  IN /\ free # {}
     /\ LET ws == CHOOSE c \in free : \A d \in free : c <= d
        IN /\ sockets' = [closed EXCEPT ![ws] =
                [debateId |-> id, readyState |-> "CONNECTING", inbox |-> <<>>]]
           /\ store' = [store EXCEPT !.isDebateRunning = FALSE,
                                     !.streamingMessage = NullObj,
                                     !.isLoading = TRUE,
                                     !.wsConnection = ws]
     /\ pending' = pending \cup {Request("fetchDebate", id),
                                 Request("fetchMessages", id)}
     /\ UNCHANGED <<sent, server, fragTokens, signalled, thrown, authVars>>

\* ---- intents --------------------------------------------------------------

\* What startDebate() tells its caller: console.warn in the else branch.
StartSignal(open) == ~open

\* Faulty variant of startDebate that does not wait for the server: it
\* sets the status to active itself. C26 must not hold of it.
startDebateEager ==
  /\ IF IsOpen(store, sockets)
     THEN /\ FramesSent < MaxFrames
          /\ sent' = [sent EXCEPT !["start_debate"] = @ + 1]
          /\ store' = [store EXCEPT !.isDebateRunning = TRUE,
                                    !.currentDebate = WithDebate(store, "status", "active")]
     ELSE UNCHANGED <<store, sent>>
  /\ signalled' = StartSignal(IsOpen(store, sockets))
  /\ UNCHANGED <<sockets, pending, server, fragTokens, thrown, authVars>>

\* startDebate()
startDebate ==
  /\ IF IsOpen(store, sockets)
     THEN /\ FramesSent < MaxFrames
          /\ sent' = [sent EXCEPT !["start_debate"] = @ + 1]
          /\ store' = [store EXCEPT !.isDebateRunning = TRUE]
     ELSE UNCHANGED <<store, sent>>
  /\ signalled' = StartSignal(IsOpen(store, sockets))
  /\ UNCHANGED <<sockets, pending, server, fragTokens, thrown, authVars>>

\* Faulty variant of pauseDebate that treats the request as the pause: it
\* stops the run and sets the status itself. C28 must not hold of it.
pauseDebateEager ==
  /\ IF IsOpen(store, sockets)
     THEN /\ FramesSent < MaxFrames
          /\ store' = [store EXCEPT !.isPausePending = TRUE,
                                    !.isDebateRunning = FALSE,
                                    !.currentDebate = WithDebate(store, "status", "paused")]
          /\ sent' = [sent EXCEPT !["pause_debate"] = @ + 1]
     ELSE /\ store' = [store EXCEPT !.isPausePending = FALSE]
          /\ UNCHANGED sent
  /\ signalled' = FALSE
  /\ UNCHANGED <<sockets, pending, server, fragTokens, thrown, authVars>>

\* pauseDebate(): neither branch logs or returns anything.
pauseDebate ==
  /\ IF IsOpen(store, sockets)
     THEN /\ FramesSent < MaxFrames
          /\ store' = [store EXCEPT !.isPausePending = TRUE]
          /\ sent' = [sent EXCEPT !["pause_debate"] = @ + 1]
     ELSE /\ store' = [store EXCEPT !.isPausePending = FALSE]
          /\ UNCHANGED sent
  /\ signalled' = FALSE
  /\ UNCHANGED <<sockets, pending, server, fragTokens, thrown, authVars>>

\* Faulty variant of sendHumanMessage that shows the message at once,
\* without waiting for the server's human_spoke: C29 must not hold of it.
sendHumanMessageShown ==
  /\ IF IsOpen(store, sockets)
     THEN /\ FramesSent < MaxFrames
          /\ Len(store.messages) < MaxMsgs
          /\ sent' = [sent EXCEPT !["human_message"] = @ + 1]
          /\ store' = [store EXCEPT !.messages =
                         Append(@, [id |-> "", agent_name |-> "u", content |-> "Hi",
                                    turn_number |-> 0, timestamp |-> "T",
                                    username |-> "u"])]
     ELSE UNCHANGED <<store, sent>>
  /\ signalled' = FALSE
  /\ UNCHANGED <<sockets, pending, server, fragTokens, thrown, authVars>>

\* sendHumanMessage(content, messageType): there is no else branch.
sendHumanMessage ==
  /\ IF IsOpen(store, sockets)
     THEN /\ FramesSent < MaxFrames
          /\ sent' = [sent EXCEPT !["human_message"] = @ + 1]
     ELSE UNCHANGED sent
  /\ signalled' = FALSE
  /\ UNCHANGED <<store, sockets, pending, server, fragTokens, thrown, authVars>>

(***************************************************************************)
(* PART III - store/auth and the route guard                               *)
(***************************************************************************)
NoRoute == ""

\* Pathnames the browser navigates to.
Pathnames == {"/", "/login", "/register", "/profile", "/debates", "/debates/1"}

protectedRoutes == {"/profile", "/debates"}
publicRoutes == {"/login", "/register"}

\* pathname.startsWith(prefix)
StartsWith(pathname, prefix) ==
  Len(pathname) >= Len(prefix) /\ SubSeq(pathname, 1, Len(prefix)) = prefix

\* !!accessToken || !!refreshToken
HasCredential(jar) == jar.access_token # NoToken \/ jar.refresh_token # NoToken

\* proxy(request): the pathname the browser ends up on.
proxy(pathname, jar) ==
  LET isProtectedRoute == \E p \in protectedRoutes : StartsWith(pathname, p)
      isPublicRoute == \E p \in publicRoutes : StartsWith(pathname, p)
      isAuthenticated == HasCredential(jar)
  IN IF isProtectedRoute /\ ~isAuthenticated THEN "/login"
     ELSE IF isPublicRoute /\ isAuthenticated THEN "/debates"
     ELSE pathname

\* create<AuthState>(...): the auth store as the page load creates it.
CreateAuth(jar) ==
  [user |-> NullObj, isAuthenticated |-> HasCredential(jar), isLoading |-> FALSE]

TheUser == [username |-> "u"]

\* A hard navigation to pathname: the guard answers the request, which
\* carries the browser's cookies, and the page it serves creates the stores
\* anew; calls of the page left behind are abandoned.
Navigate(pathname) ==
  /\ route' = proxy(pathname, cookies)
  /\ auth' = CreateAuth(cookies)
  /\ req' = [r \in ReqIds |-> IdleReq]
  /\ UNCHANGED <<cookies, storeVars>>

\* login(formData), up to `await api.post('/auth/login', ...)`.
login(r) ==
  /\ req[r].st = "idle"
  /\ auth' = [auth EXCEPT !.isLoading = TRUE]
  /\ req' = [req EXCEPT ![r] = Call(@, "/auth/login", cookies)]
  /\ UNCHANGED <<cookies, route, storeVars>>

\* login after its await, success: both cookies are set, isAuthenticated
\* becomes true and fetchUser() runs up to its own await.
LoginOk(r, access_token, refresh_token) ==
  /\ req[r].url = "/auth/login" /\ req[r].st = "ok"
  /\ cookies' = [access_token |-> access_token, refresh_token |-> refresh_token]
  /\ auth' = [auth EXCEPT !.isAuthenticated = TRUE, !.isLoading = TRUE]
  /\ req' = [req EXCEPT ![r] = Call(IdleReq, "/auth/me", cookies')]
  /\ UNCHANGED <<route, storeVars>>

\* login after its await, failure: catch (logged, rethrown), finally.
LoginFail(r) ==
  /\ req[r].url = "/auth/login" /\ req[r].st = "rejected"
  /\ auth' = [auth EXCEPT !.isLoading = FALSE]
  /\ req' = [req EXCEPT ![r] = IdleReq]
  /\ UNCHANGED <<cookies, route, storeVars>>

\* register(data), up to `await api.post('/auth/register', data)`.
register(r) ==
  /\ req[r].st = "idle"
  /\ auth' = [auth EXCEPT !.isLoading = TRUE]
  /\ req' = [req EXCEPT ![r] = Call(@, "/auth/register", cookies)]
  /\ UNCHANGED <<cookies, route, storeVars>>

\* register after its await: finally, on success and on failure.
RegisterDone(r) ==
  /\ req[r].url = "/auth/register" /\ req[r].st \in {"ok", "rejected"}
  /\ auth' = [auth EXCEPT !.isLoading = FALSE]
  /\ req' = [req EXCEPT ![r] = IdleReq]
  /\ UNCHANGED <<cookies, route, storeVars>>

\* logout(): window.location.href = '/login' is a hard navigation.
logout ==
  /\ cookies' = ClearTokens(cookies)
  /\ route' = proxy("/login", cookies')
  /\ auth' = CreateAuth(cookies')
  /\ req' = [r \in ReqIds |-> IdleReq]
  /\ UNCHANGED storeVars

\* fetchUser(), up to `await api.get('/auth/me')`.
fetchUser(r) ==
  /\ req[r].st = "idle"
  /\ auth' = [auth EXCEPT !.isLoading = TRUE]
  /\ req' = [req EXCEPT ![r] = Call(@, "/auth/me", cookies)]
  /\ UNCHANGED <<cookies, route, storeVars>>

\* fetchUser after its await, success: try body, then finally.
FetchUserOk(r) ==
  /\ req[r].url = "/auth/me" /\ req[r].st = "ok"
  /\ auth' = [user |-> TheUser, isAuthenticated |-> TRUE, isLoading |-> FALSE]
  /\ req' = [req EXCEPT ![r] = IdleReq]
  /\ UNCHANGED <<cookies, route, storeVars>>

\* fetchUser after its await, failure: catch, then finally.
FetchUserFail(r) ==
  /\ req[r].url = "/auth/me" /\ req[r].st = "rejected"
  /\ auth' = [user |-> NullObj, isAuthenticated |-> FALSE, isLoading |-> FALSE]
  /\ req' = [req EXCEPT ![r] = IdleReq]
  /\ UNCHANGED <<cookies, route, storeVars>>

(***************************************************************************)
(* Specifications                                                          *)
(***************************************************************************)

\* The stores as created, in a browser that may hold credentials of an
\* earlier visit.
AuthInit ==
  /\ cookies \in [access_token : Tokens \cup {NoToken},
                  refresh_token : Tokens \cup {NoToken}]
  /\ req = [r \in ReqIds |-> IdleReq]
  /\ auth = CreateAuth(cookies)
  /\ route = NoRoute
  /\ store = InitStore
  /\ sockets = NoSockets
  /\ sent = NothingSent
  /\ pending = NothingPending
  /\ server = ServerInit
  /\ signalled = FALSE
  /\ thrown = FALSE
  /\ fragTokens = <<>>

\* The API client alone: calls, responses and refreshes interleave freely
\* while the debate store rests.
AuthSpec == AuthInit /\ [][AuthNext]_vars

\* Every call that is on the wire is eventually answered (a response, or a
\* network failure the interceptor sees as an error), and so is every
\* refresh call.
Answered(r) ==
  \/ ResponseOk(r)
  \/ \E status \in Statuses : ResponseError(r, status)
  \/ \E a \in Tokens, rt \in Tokens \cup {NoToken} : RefreshOk(r, a, rt)
  \/ RefreshFail(r)

AuthFairSpec == AuthSpec /\ \A r \in ReqIds : WF_vars(Answered(r))

\* The debate pages are used by a signed-in user; the specifications of the
\* debate store start with no API call of the other stores in flight.
Init ==
  /\ cookies = [access_token |-> "t1", refresh_token |-> "t1"]
  /\ req = [r \in ReqIds |-> IdleReq]
  /\ auth = CreateAuth(cookies)
  /\ route = NoRoute
  /\ store = InitStore
  /\ sockets = NoSockets
  /\ sent = NothingSent
  /\ pending = NothingPending
  /\ server = ServerInit
  /\ signalled = FALSE
  /\ thrown = FALSE
  /\ fragTokens = <<>>

\* ---- inputs of the debate store ----------------------------------------------

AgentThinking == [type |-> "agent_thinking", agent_name |-> "A"]

AgentToken(token) == [type |-> "agent_token", token |-> token]

AgentSpoke(message_id, content, turn_number) ==
  [type |-> "agent_spoke", message_id |-> message_id, agent_name |-> "A",
   content |-> content, turn_number |-> turn_number, timestamp |-> "T"]

HumanSpoke ==
  [type |-> "human_spoke", message_id |-> "h1", username |-> "u",
   content |-> "Hi", turn_number |-> 0, timestamp |-> "T"]

Plain(type) == [type |-> type]

MessageId(n) == "m" \o ToString(n)

\* The orchestrator finishes a turn of debate A: it advances current_turn
\* and writes the turn's agent_spoke frame to every connection of the debate.
ServerSpeaks ==
  /\ server.current_turn < MaxTurns
  /\ LET n == server.current_turn + 1
         frame == AgentSpoke(MessageId(n), "Hi", n)
     IN /\ server' = [server EXCEPT !.current_turn = n]
        /\ sockets' = [c \in SocketIds |->
             IF sockets[c].readyState = "OPEN" /\ sockets[c].debateId = "A"
             THEN [sockets[c] EXCEPT !.inbox = Append(@, frame)]
             ELSE sockets[c]]
  /\ UNCHANGED <<store, sent, pending, fragTokens, signalled, thrown, authVars>>

DebateOf(id, status, current_turn, summary) ==
  [id |-> id, status |-> status, max_turns |-> MaxTurns,
   current_turn |-> current_turn, summary |-> summary]

TokenSet == {"Hi", " there"}
ContentSet == {"Hi there", "Hi"}

RECURSIVE Concat(_)
Concat(toks) == IF toks = <<>> THEN "" ELSE Head(toks) \o Concat(Tail(toks))

Last(seq) == seq[Len(seq)]

\* One view of debate A over one connection at a time: the baseline fetch
\* and the streamed turns of the debate.
SpokeEvents == {AgentSpoke("m1", content, 1) : content \in ContentSet}

StreamEvents ==
  {AgentThinking, HumanSpoke} \cup {AgentToken(t) : t \in TokenSet} \cup SpokeEvents

StreamNext ==
  \/ store.wsConnection = NoSocket /\ connectWebSocket("A")
  \/ \E c \in SocketIds : TransportOpen(c) \/ TransportClose(c)
  \/ \E c \in SocketIds, data \in StreamEvents : OnMessage(c, data)
  \/ fetchDebate("A")
  \/ Answer("fetchDebate", "A", DebateOf("A", "active", 0, NoSummary))
  \/ FetchDebateOk("A", DebateOf("A", "active", 0, NoSummary))
  \/ FetchDebateFail("A")

Spec == Init /\ [][StreamNext]_vars

\* Connections of two debates opened, superseded and closed in any order,
\* each delivering the frames of a turn.
ConnEvents ==
  {AgentThinking, AgentToken("Hi"), AgentSpoke("m1", "Hi", 1),
   Plain("debate_started"), Plain("error")}

ConnNext ==
  \/ \E id \in DebateIds : connectWebSocket(id)
  \/ disconnectWebSocket
  \/ reset
  \/ \E c \in SocketIds : TransportOpen(c) \/ TransportClose(c)
  \/ \E c \in SocketIds, data \in ConnEvents : OnMessage(c, data)

ConnSpec == Init /\ [][ConnNext]_vars

\* The turn counter of one view of debate A: the orchestrator advances the
\* debate turn by turn, a baseline call is answered with the debate as it
\* is when the call is served, and frames and responses take their time.
TurnNext ==
  \/ store.wsConnection = NoSocket /\ connectWebSocket("A")
  \/ \E c \in SocketIds : TransportOpen(c) \/ TransportClose(c)
  \/ ServerSpeaks
  \/ \E c \in SocketIds : Receive(c)
  \/ fetchDebate("A")
  \/ Answer("fetchDebate", "A", DebateOf("A", "active", server.current_turn, NoSummary))
  \/ \E n \in 0..MaxTurns : FetchDebateOk("A", DebateOf("A", "active", n, NoSummary))
  \/ FetchDebateFail("A")

TurnSpec == Init /\ [][TurnNext]_vars

\* The controls of one view of debate A: start, pause and send, and the
\* acknowledgements of the server.
ControlEvents ==
  {Plain("debate_started"), Plain("debate_paused"), Plain("debate_completed"),
   Plain("error"), Plain("pause_acknowledged")}

ControlNext ==
  \/ store.wsConnection = NoSocket /\ connectWebSocket("A")
  \/ \E c \in SocketIds : TransportOpen(c) \/ TransportClose(c)
  \/ \E c \in SocketIds, data \in ControlEvents : OnMessage(c, data)
  \/ fetchDebate("A")
  \/ \E status \in DebateStatuses :
       \/ Answer("fetchDebate", "A", DebateOf("A", status, 0, NoSummary))
       \/ FetchDebateOk("A", DebateOf("A", status, 0, NoSummary))
  \/ FetchDebateFail("A")
  \/ startDebate
  \/ pauseDebate
  \/ sendHumanMessage

ControlSpec == Init /\ [][ControlNext]_vars

\* The frames of turn n of agent A, in the order the orchestrator writes them.
TurnFrames(n) ==
  <<AgentThinking, AgentToken("Hi"), AgentToken(" there"),
    AgentSpoke(MessageId(n), "Hi there", n)>>

\* The orchestrator handles the start_debate frame of the pending debate A:
\* it announces the start and plays the first turn on every connection of
\* the debate.
ServerRuns ==
  /\ sent["start_debate"] > 0
  /\ server.current_turn = 0
  /\ server' = [server EXCEPT !.current_turn = 1]
  /\ sockets' = [c \in SocketIds |->
       IF sockets[c].readyState = "OPEN" /\ sockets[c].debateId = "A"
       THEN [sockets[c] EXCEPT
               !.inbox = @ \o <<Plain("debate_started")>> \o TurnFrames(1)]
       ELSE sockets[c]]
  /\ UNCHANGED <<store, sent, pending, fragTokens, signalled, thrown, authVars>>

\* The baseline of the pending debate A with no message has been loaded and
\* no baseline call is in flight.
BaselineLoaded ==
  /\ pending = {}
  /\ store.currentDebate # NullObj
  /\ store.currentDebate.status = "pending"
  /\ store.messages = <<>>

\* The first run of the pending debate A in one view: the baseline is
\* loaded, the user starts the debate, the orchestrator plays turn 1.
RunNext ==
  \/ store.wsConnection = NoSocket /\ connectWebSocket("A")
  \/ \E c \in SocketIds : TransportOpen(c) \/ TransportClose(c)
  \/ sent["start_debate"] = 0 /\ fetchDebate("A")
  \/ Answer("fetchDebate", "A", DebateOf("A", "pending", 0, NoSummary))
  \/ FetchDebateOk("A", DebateOf("A", "pending", 0, NoSummary))
  \/ sent["start_debate"] = 0 /\ fetchMessages("A")
  \/ Answer("fetchMessages", "A", <<>>)
  \/ FetchMessagesOk("A", <<>>)
  \/ BaselineLoaded /\ startDebate
  \/ ServerRuns
  \/ \E c \in SocketIds : Receive(c)

RunSpec == Init /\ [][RunNext]_vars

\* ---- the conclusion of debate A ------------------------------------------

ConsensusToken(token) == [type |-> "consensus_token", token |-> token]

ConsensusGenerated(summary) == [type |-> "consensus_generated", summary |-> summary]

DraftTokenSet == {"A", "B"}

\* The final texts of a conclusion.
SummarySet == {"AB", "Final"}

\* The token sequences of a conclusion.
Drafts == UNION {[1..n -> DraftTokenSet] : n \in 0..MaxTokens}

\* The orchestrator draws the conclusion of debate A: it streams the draft
\* and then the final summary to every connection of the debate.
Conclude(toks, summary) ==
  /\ server.summary = NoSummary
  /\ summary # NoSummary
  /\ server' = [server EXCEPT !.consensus = toks, !.summary = summary]
  /\ sockets' = [c \in SocketIds |->
       IF sockets[c].readyState = "OPEN" /\ sockets[c].debateId = "A"
       THEN [sockets[c] EXCEPT
               !.inbox = @ \o <<Plain("consensus_started")>>
                           \o [i \in 1..Len(toks) |-> ConsensusToken(toks[i])]
                           \o <<ConsensusGenerated(summary)>>]
       ELSE sockets[c]]
  /\ UNCHANGED <<store, sent, pending, fragTokens, signalled, thrown, authVars>>

\* The conclusion drawn while no baseline call is in flight.
ServerConcludes(toks, summary) ==
  /\ pending = {}
  /\ Conclude(toks, summary)

\* One view of the completed debate A while the orchestrator draws its
\* conclusion; the baseline is fetched before the conclusion starts.
ConcludeNext ==
  \/ store.wsConnection = NoSocket /\ connectWebSocket("A")
  \/ \E c \in SocketIds : TransportOpen(c) \/ TransportClose(c)
  \/ server.summary = NoSummary /\ fetchDebate("A")
  \/ Answer("fetchDebate", "A", DebateOf("A", "completed", MaxTurns, NoSummary))
  \/ FetchDebateOk("A", DebateOf("A", "completed", MaxTurns, NoSummary))
  \/ FetchDebateFail("A")
  \/ \E toks \in Drafts, summary \in SummarySet : ServerConcludes(toks, summary)
  \/ \E c \in SocketIds : Receive(c)

ConcludeSpec == Init /\ [][ConcludeNext]_vars

\* ---- moving between the pages of two debates ----------------------------

ViewEvents == {AgentThinking, Plain("consensus_started")}

\* The user opens the page of a debate, leaves it (the effect's cleanup is
\* disconnectWebSocket) and opens another, while the debates run.
ViewNext ==
  \/ \E id \in DebateIds : store.wsConnection = NoSocket /\ OpenView(id)
  \/ disconnectWebSocket
  \/ \E c \in SocketIds : TransportOpen(c) \/ TransportClose(c)
  \/ \E c \in SocketIds, data \in ViewEvents : OnMessage(c, data)
  \/ \E id \in DebateIds :
       \/ Answer("fetchDebate", id, DebateOf(id, "active", 0, NoSummary))
       \/ FetchDebateOk(id, DebateOf(id, "active", 0, NoSummary))

ViewSpec == Init /\ [][ViewNext]_vars

Refreshing == {r \in ReqIds : req[r].st = "refreshing"}
Settled(r) == req[r].st \in {"ok", "rejected"}

(***************************************************************************)
(* Claims about lib/api                                                    *)
(***************************************************************************)

\* C2 (as claimed): at most one POST /auth/refresh is outstanding at any
\* time, however many calls received a 401.
C2_SingleFlightRefresh == Cardinality(Refreshing) <= 1

\* C3: a non-auth call that got 401 with a refresh token stored, whose
\* refresh succeeds, stores the new access token and is re-sent carrying
\* Authorization: Bearer <new access token>; it is the call's second and
\* last send, and a successful retry settles the call as a success.
C3_RefreshStoresAndRetriesOnce ==
  /\ [][\A r \in ReqIds :
          /\ \A a \in Tokens, rt \in Tokens \cup {NoToken} :
               RefreshOk(r, a, rt) =>
                 /\ cookies'.access_token = a
                 /\ req'[r].st = "sent"
                 /\ req'[r].Authorization = a
                 /\ req'[r].sends = 2
          /\ (req[r].sends = 2 /\ ResponseOk(r)) => req'[r].st = "ok"]_vars
  /\ [](\A r \in ReqIds : req[r].sends <= 2)

C3_Witness ==
  \E r \in ReqIds :
    /\ req[r].st = "ok" /\ req[r].sends = 2 /\ req[r].refreshes = 1
    /\ ~isAuthPath(req[r].url)

\* C4: when the refresh call fails, both credentials are removed, the
\* caller's promise is rejected, and the call is neither re-sent nor
\* refreshed again (a rejected call never changes afterwards).
C4_RefreshFailureIsTerminal ==
  [][\A r \in ReqIds :
       /\ RefreshFail(r) =>
            /\ cookies'.access_token = NoToken
            /\ cookies'.refresh_token = NoToken
            /\ req'[r].st = "rejected"
            /\ req'[r].sends = req[r].sends
            /\ req'[r].refreshes = req[r].refreshes
       /\ req[r].st = "rejected" => req'[r] = req[r]]_vars

C4_Witness ==
  \E r \in ReqIds :
    /\ req[r].st = "rejected" /\ req[r].sends = 1 /\ req[r].refreshes = 1
    /\ cookies = [access_token |-> NoToken, refresh_token |-> NoToken]

\* C5: every request is sent at most twice and refreshes at most once; a
\* request already marked _retry that fails again is rejected without
\* another refresh; every issued request eventually settles.
C5_NoRefreshLoop ==
  /\ [](\A r \in ReqIds : req[r].sends <= 2 /\ req[r].refreshes <= 1)
  /\ [][\A r \in ReqIds, status \in Statuses :
          (req[r]._retry /\ ResponseError(r, status)) =>
             /\ req'[r].st = "rejected"
             /\ req'[r].refreshes = req[r].refreshes
             /\ req'[r].sends = req[r].sends]_vars
  /\ \A r \in ReqIds : (req[r].st # "idle") ~> Settled(r)

C5_Witness ==
  \E r \in ReqIds :
    /\ req[r].st = "rejected" /\ req[r]._retry
    /\ req[r].sends = 2 /\ req[r].refreshes = 1

\* C6: a failure of a call to /auth/login, /auth/register or /auth/refresh
\* is rejected at once: no refresh is attempted for it and the stored
\* credentials are left as they are.
C6_AuthPathNeverRefreshes ==
  /\ [][\A r \in ReqIds, status \in Statuses :
          (req[r].url \in AuthPaths /\ ResponseError(r, status)) =>
             /\ req'[r].st = "rejected"
             /\ cookies' = cookies]_vars
  /\ [](\A r \in ReqIds :
          req[r].url \in AuthPaths =>
            /\ req[r].refreshes = 0 /\ req[r].st # "refreshing"
            /\ ~req[r]._retry /\ req[r].sends <= 1)

C6_Witness ==
  \E r \in ReqIds :
    /\ req[r].url = "/auth/refresh" /\ req[r].st = "rejected"
    /\ cookies.access_token # NoToken /\ cookies.refresh_token # NoToken

(***************************************************************************)
(* Claims about store/debate                                               *)
(***************************************************************************)

\* Socket c belongs to a session that connectWebSocket has replaced by the
\* session of another debate.
Superseded(c) ==
  /\ sockets[c].readyState \in {"CONNECTING", "OPEN", "CLOSING"}
  /\ store.wsConnection \notin {NoSocket, c}
  /\ sockets[store.wsConnection].debateId # sockets[c].debateId

\* C1: once connectWebSocket(B) has replaced the connection of session A,
\* no event of A's socket (open, message, close) changes the store, and
\* A's socket can no longer deliver a message.
C1_StaleEventsIgnored ==
  /\ [][\A c \in SocketIds :
          (/\ Superseded(c)
           /\ \/ TransportOpen(c)
              \/ TransportClose(c)
              \/ \E data \in ConnEvents : OnMessage(c, data))
          => store' = store]_vars
  /\ [](\A c \in SocketIds : Superseded(c) => ~Delivers(sockets[c]))

\* The close event of A's socket has been handled while B's socket, opened
\* after it, stays the store's connection of a running debate.
C1_Witness ==
  /\ store.wsConnection = 2
  /\ sockets[1].debateId = "A" /\ sockets[1].readyState = "CLOSED"
  /\ sockets[2].debateId = "B" /\ sockets[2].readyState = "OPEN"
  /\ store.isDebateRunning

\* C7 (as claimed): the Message appended by agent_spoke carries the exact
\* concatenation of the tokens received since agent_thinking, and
\* streamingMessage is null afterwards.
C7_SpokeContentIsTokenConcat ==
  [][\A c \in SocketIds, data \in SpokeEvents :
       (OnMessage(c, data) /\ store.streamingMessage # NullObj) =>
          /\ Last(store'.messages).content = Concat(fragTokens)
          /\ store'.streamingMessage = NullObj]_vars

\* C7 (amended): over agent_thinking, agent_token*, agent_spoke the live
\* fragment holds the exact concatenation of the tokens received since
\* agent_thinking; agent_spoke appends one Message whose content is the
\* content field of the agent_spoke frame and leaves streamingMessage null.
C7_SpokeContentIsPayload ==
  /\ [](store.streamingMessage # NullObj =>
          store.streamingMessage.content = Concat(fragTokens))
  /\ [][\A c \in SocketIds, data \in SpokeEvents :
          OnMessage(c, data) =>
             /\ Len(store'.messages) = Len(store.messages) + 1
             /\ Last(store'.messages).content = data.content
             /\ store'.streamingMessage = NullObj]_vars

C7_Witness ==
  /\ fragTokens = <<"Hi", " there">>
  /\ store.streamingMessage = NullObj
  /\ Len(store.messages) = 1
  /\ Last(store.messages).content = "Hi"

\* C8 (as claimed): applying an agent_spoke frame a second time, right after
\* its first application, leaves messages, current_turn and
\* streamingMessage as they are.
C8_SpokeReplayIsStable ==
  [][\A c \in SocketIds, data \in SpokeEvents :
       (/\ OnMessage(c, data)
        /\ store.messages # <<>>
        /\ Last(store.messages) = AgentMessage(data)
        /\ store.streamingMessage = NullObj
        /\ store.currentDebate # NullObj
        /\ store.currentDebate.current_turn = data.turn_number)
       => /\ store'.messages = store.messages
          /\ store'.currentDebate = store.currentDebate
          /\ store'.streamingMessage = store.streamingMessage]_vars

\* C9 (as claimed): within one view, current_turn never exceeds max_turns
\* and never decreases.
C9_TurnMonotoneAndBounded ==
  /\ [](store.currentDebate # NullObj =>
          store.currentDebate.current_turn <= store.currentDebate.max_turns)
  /\ [][(/\ store.currentDebate # NullObj
         /\ store'.currentDebate # NullObj
         /\ store'.currentDebate.id = store.currentDebate.id)
        => store'.currentDebate.current_turn >= store.currentDebate.current_turn]_vars

\* C10 (as claimed): pauseDebate() called while isDebateRunning is false
\* writes no frame and leaves the store unchanged.
C10_PauseWhenNotRunningIsNoOp ==
  [][(pauseDebate /\ ~store.isDebateRunning) =>
       (sent' = sent /\ store' = store)]_vars

\* C11 (as claimed): startDebate() called while currentDebate.status is
\* active or completed writes no start_debate frame and does not set
\* isDebateRunning, even when the connection is open.
C11_StartWhenActiveOrCompletedIsNoOp ==
  [][(/\ startDebate
      /\ store.currentDebate # NullObj
      /\ store.currentDebate.status \in {"active", "completed"})
     => /\ sent' = sent
        /\ store'.isDebateRunning = store.isDebateRunning]_vars

\* The view after the first turn: debate active at turn 1, one Message
\* "Hi there", no live fragment.
FirstTurnShown(s) ==
  /\ s.currentDebate # NullObj
  /\ s.currentDebate.status = "active"
  /\ s.currentDebate.current_turn = 1
  /\ Len(s.messages) = 1
  /\ s.messages[1].content = "Hi there"
  /\ s.streamingMessage = NullObj

\* C12: from a view whose baseline is the pending debate with no message
\* and an open connection, startDebate() followed by debate_started,
\* agent_thinking, agent_token "Hi", agent_token " there" and
\* agent_spoke{"Hi there", turn 1} yields status active, current_turn 1,
\* exactly one Message "Hi there" and streamingMessage null.
C12_EndToEndFirstTurn ==
  [][\A c \in SocketIds :
       (Receive(c) /\ Head(sockets[c].inbox).type = "agent_spoke")
       => FirstTurnShown(store')]_vars

C12_Witness ==
  /\ sent["start_debate"] = 1
  /\ fragTokens = <<"Hi", " there">>
  /\ FirstTurnShown(store)

\* The tokens of the conclusion that socket c has delivered so far, while
\* the rest of the conclusion is still in flight on it.
DraftDelivered(c) ==
  SubSeq(server.consensus, 1, Len(server.consensus) - (Len(sockets[c].inbox) - 1))

\* C13: after consensus_started, consensus_token* and
\* consensus_generated{summary: s}, consensusSummary is s, currentDebate.summary
\* is s when a debate is loaded, and isGeneratingConsensus is false; between
\* consensus_started and consensus_generated the draft is the concatenation
\* of the tokens received so far and isGeneratingConsensus is true.
C13_ConsensusDraftAndSummary ==
  /\ [][\A c \in SocketIds :
          (Receive(c) /\ Head(sockets[c].inbox).type = "consensus_generated")
          => /\ store'.consensusSummary = Head(sockets[c].inbox).summary
             /\ store.currentDebate # NullObj =>
                  store'.currentDebate.summary = Head(sockets[c].inbox).summary
             /\ store.currentDebate = NullObj => store'.currentDebate = NullObj
             /\ ~store'.isGeneratingConsensus]_vars
  /\ [](\A c \in SocketIds :
          (/\ sockets[c].inbox # <<>>
           /\ Head(sockets[c].inbox).type \in {"consensus_token", "consensus_generated"})
          => /\ store.isGeneratingConsensus
             /\ store.consensusSummary = Concat(DraftDelivered(c)))

C13_Witness ==
  /\ server.consensus = <<"A", "B">>
  /\ store.consensusSummary = "Final"
  /\ store.currentDebate # NullObj
  /\ store.currentDebate.summary = "Final"
  /\ ~store.isGeneratingConsensus

\* No transient value is held: no live fragment, no consensus draft, no
\* running or pause-pending flag.
NoTransient(s) ==
  /\ s.streamingMessage = NullObj
  /\ s.consensusSummary = ""
  /\ ~s.isGeneratingConsensus
  /\ ~s.isDebateRunning
  /\ ~s.isPausePending

\* C14 (as claimed): opening a debate view leaves no transient state of the
\* view shown before: streamingMessage, the consensus draft, isDebateRunning
\* and isPausePending are reset by the time the baseline calls and the
\* connect are issued.
C14_OpenResetsTransientState ==
  [][\A id \in DebateIds : OpenView(id) => NoTransient(store')]_vars

\* C15 (as claimed): disconnectWebSocket() tears the connection down and
\* clears streamingMessage, isDebateRunning, isPausePending and
\* isGeneratingConsensus; called when no connection exists it changes
\* nothing.
C15_CloseClearsTransientState ==
  [][disconnectWebSocket =>
       /\ store'.wsConnection = NoSocket
       /\ \A c \in SocketIds : sockets'[c].readyState # "OPEN"
       /\ store'.streamingMessage = NullObj
       /\ ~store'.isDebateRunning
       /\ ~store'.isPausePending
       /\ ~store'.isGeneratingConsensus
       /\ store.wsConnection = NoSocket => (store' = store /\ sockets' = sockets)]_vars

\* C16 (as claimed): while isPausePending is true a further pauseDebate()
\* writes no second pause_debate frame.
C16_NoSecondPauseWhilePending ==
  [][(pauseDebate /\ store.isPausePending) => sent' = sent]_vars

\* C17 (as claimed): with no connection, or a connection that is not open,
\* startDebate, pauseDebate and sendHumanMessage write no frame and do not
\* pretend success: startDebate does not set isDebateRunning, pauseDebate
\* leaves isPausePending false, and each of them signals its caller.
C17_NotOpenIntentsSignal ==
  [][~IsOpen(store, sockets) =>
       /\ startDebate =>
            /\ sent' = sent
            /\ store'.isDebateRunning = store.isDebateRunning
            /\ signalled'
       /\ pauseDebate =>
            /\ sent' = sent
            /\ ~store'.isPausePending
            /\ signalled'
       /\ sendHumanMessage =>
            /\ sent' = sent
            /\ store' = store
            /\ signalled']_vars

\* C18: the close callback of a connection that is no longer the store's
\* wsConnection, because connectWebSocket was called again, leaves
\* wsConnection on the new connection and isDebateRunning and
\* isPausePending as they are.
C18_SupersededCloseIsNoOp ==
  [][\A c \in SocketIds :
       (TransportClose(c) /\ store.wsConnection \notin {NoSocket, c})
       => /\ store'.wsConnection = store.wsConnection
          /\ store'.isDebateRunning = store.isDebateRunning
          /\ store'.isPausePending = store.isPausePending]_vars

\* The first connection of debate A has closed after a second connection
\* of the same debate replaced it, and the second one still runs.
C18_Witness ==
  /\ store.wsConnection = 2
  /\ sockets[1].debateId = "A" /\ sockets[1].readyState = "CLOSED"
  /\ sockets[2].debateId = "A" /\ sockets[2].readyState = "OPEN"
  /\ store.isDebateRunning

\* C19: when the transport of the current connection closes, wsConnection
\* becomes null and isDebateRunning and isPausePending become false.
C19_CurrentCloseClearsFlags ==
  [][\A c \in SocketIds :
       (TransportClose(c) /\ store.wsConnection = c)
       => /\ store'.wsConnection = NoSocket
          /\ ~store'.isDebateRunning
          /\ ~store'.isPausePending]_vars

\* The connection on which a start and a pause were requested has closed
\* before any acknowledgement changed the debate's status.
C19_Witness ==
  /\ store.wsConnection = NoSocket
  /\ sockets[1].readyState = "CLOSED"
  /\ sent["start_debate"] = 1 /\ sent["pause_debate"] = 1
  /\ store.currentDebate # NullObj /\ store.currentDebate.status = "pending"
  /\ ~store.isDebateRunning /\ ~store.isPausePending

\* C20 (as claimed): whenever wsConnection is null, isDebateRunning and
\* isPausePending are both false.
C20_ClosedChannelNeverMidTurn ==
  store.wsConnection = NoSocket =>
    (~store.isDebateRunning /\ ~store.isPausePending)

(***************************************************************************)
(* Claims about the message list, the events and the intents               *)
(***************************************************************************)

\* Message n of debate A as GET /debates/A/messages returns it: the row's
\* time is in created_at.
ApiMessage(n) ==
  [id |-> MessageId(n), agent_name |-> "A", content |-> "Hi",
   turn_number |-> n, timestamp |-> "", created_at |-> "T"]

\* The messages of debate A after n turns.
ServerMessages(n) == [i \in 1..n |-> ApiMessage(i)]

\* One view of the running debate A: the page's open effect fetches the
\* baseline and connects, the orchestrator plays its turns, and responses
\* and frames arrive when they arrive.
BaselineNext ==
  \/ store.wsConnection = NoSocket /\ OpenView("A")
  \/ \E c \in SocketIds : TransportOpen(c) \/ TransportClose(c)
  \/ ServerSpeaks
  \/ \E c \in SocketIds : Receive(c)
  \/ Answer("fetchDebate", "A", DebateOf("A", "active", server.current_turn, NoSummary))
  \/ \E n \in 0..MaxTurns : FetchDebateOk("A", DebateOf("A", "active", n, NoSummary))
  \/ Answer("fetchMessages", "A", ServerMessages(server.current_turn))
  \/ \E n \in 0..MaxTurns : FetchMessagesOk("A", ServerMessages(n))
  \/ FetchMessagesFail("A")

BaselineSpec == Init /\ [][BaselineNext]_vars

Ids(messages) == {messages[i].id : i \in 1..Len(messages)}

\* C21 (as claimed): a Message that has appeared in the view is never
\* removed or altered by a later step and appears exactly once, however the
\* fetchMessages response interleaves with the agent_spoke events.
C21_MessagesAppendOnly ==
  /\ [][\A i \in 1..Len(store.messages) :
          \E j \in 1..Len(store'.messages) :
            /\ store'.messages[j].id = store.messages[i].id
            /\ store'.messages[j].content = store.messages[i].content
            /\ store'.messages[j].turn_number = store.messages[i].turn_number]_vars
  /\ [](Cardinality(Ids(store.messages)) = Len(store.messages))

\* One view of debate A over one healthy connection: the user starts and
\* pauses, the orchestrator plays turns, announces the start and the
\* conclusion, and reports errors.
RecoverEvents ==
  {Plain("error"), Plain("debate_started"), Plain("consensus_started")}

RecoverNext ==
  \/ store.wsConnection = NoSocket /\ connectWebSocket("A")
  \/ \E c \in SocketIds : TransportOpen(c)
  \/ fetchDebate("A")
  \/ Answer("fetchDebate", "A", DebateOf("A", "pending", server.current_turn, NoSummary))
  \/ \E n \in 0..MaxTurns : FetchDebateOk("A", DebateOf("A", "pending", n, NoSummary))
  \/ startDebate
  \/ pauseDebate
  \/ ServerSpeaks
  \/ \E c \in SocketIds : Receive(c)
  \/ \E c \in SocketIds, data \in RecoverEvents : OnMessage(c, data)

RecoverSpec == Init /\ [][RecoverNext]_vars

\* C22: an error event clears isDebateRunning, isPausePending and
\* isGeneratingConsensus and nothing else: wsConnection, messages and
\* currentDebate stay as they are, and the connection stays the store's
\* open connection, so that its later events are still delivered.
C22_ErrorIsRecoverable ==
  [][\A c \in SocketIds :
       OnMessage(c, Plain("error"))
       => /\ ~store'.isDebateRunning
          /\ ~store'.isPausePending
          /\ ~store'.isGeneratingConsensus
          /\ store'.wsConnection = store.wsConnection
          /\ store'.messages = store.messages
          /\ store'.currentDebate = store.currentDebate
          /\ sockets'[c] = sockets[c]
          /\ Delivers(sockets'[c])
          /\ \A data \in RecoverEvents :
               store'.wsConnection = c =>
                 HandleMessage(store', data) =
                   HandleMessage([store EXCEPT !.isDebateRunning = FALSE,
                                               !.isPausePending = FALSE,
                                               !.isGeneratingConsensus = FALSE],
                                 data)]_vars

\* A started debate whose running flag an error has cleared (nothing else
\* clears it on a healthy connection), on a connection that is still the
\* store's open one, with the start announcement and a turn applied.
C22_Witness ==
  /\ sent["start_debate"] = 1
  /\ ~store.isDebateRunning
  /\ store.wsConnection = 1 /\ sockets[1].readyState = "OPEN"
  /\ store.currentDebate # NullObj /\ store.currentDebate.status = "active"
  /\ Len(store.messages) = 1

\* The status events and the status each announces.
StatusEvents == {"debate_started", "debate_paused", "debate_completed"}

StatusOf(type) ==
  CASE type = "debate_started" -> "active"
    [] type = "debate_paused" -> "paused"
    [] type = "debate_completed" -> "completed"

\* One view of debate A over one connection at a time: the baseline is
\* fetched, the user starts and pauses, the orchestrator plays turns and
\* announces each change of status.
StatusNext ==
  \/ store.wsConnection = NoSocket /\ connectWebSocket("A")
  \/ \E c \in SocketIds : TransportOpen(c) \/ TransportClose(c)
  \/ fetchDebate("A")
  \/ Answer("fetchDebate", "A", DebateOf("A", "pending", server.current_turn, NoSummary))
  \/ \E n \in 0..MaxTurns : FetchDebateOk("A", DebateOf("A", "pending", n, NoSummary))
  \/ startDebate
  \/ pauseDebate
  \/ ServerSpeaks
  \/ \E c \in SocketIds : Receive(c)
  \/ \E c \in SocketIds, type \in StatusEvents : OnMessage(c, Plain(type))

StatusSpec == Init /\ [][StatusNext]_vars

\* C23: debate_started, debate_paused and debate_completed set the status
\* of the loaded debate to active, paused and completed (and leave a null
\* currentDebate null) and clear isPausePending; debate_paused and
\* debate_completed also clear isDebateRunning; none of them changes
\* messages, current_turn or any other field of the debate.
C23_StatusEvents ==
  [][\A c \in SocketIds, type \in StatusEvents :
       OnMessage(c, Plain(type))
       => /\ store.currentDebate # NullObj =>
               store'.currentDebate =
                 [store.currentDebate EXCEPT !.status = StatusOf(type)]
          /\ store.currentDebate = NullObj => store'.currentDebate = NullObj
          /\ ~store'.isPausePending
          /\ type # "debate_started" => ~store'.isDebateRunning
          /\ store'.messages = store.messages]_vars

\* A pause that was pending has been acknowledged in a debate that has
\* played a turn: the view shows the turn, its message and status paused.
C23_Witness ==
  /\ sent["pause_debate"] = 1
  /\ store.wsConnection # NoSocket
  /\ store.currentDebate # NullObj
  /\ store.currentDebate.status = "paused"
  /\ store.currentDebate.current_turn = 1
  /\ Len(store.messages) = 1
  /\ ~store.isPausePending /\ ~store.isDebateRunning

\* C24 (as claimed): streamingMessage is non-null only while the store's
\* current connection is open and a turn is between its agent_thinking and
\* its agent_spoke: an error event ends the fragment, and no fragment is
\* left once that connection has closed or has been replaced or given up.
C24_FragmentWithinItsPair ==
  /\ [](store.streamingMessage # NullObj => IsOpen(store, sockets))
  /\ [][\A c \in SocketIds :
          OnMessage(c, Plain("error")) => store'.streamingMessage = NullObj]_vars

\* The auth store and the route guard of one browser tab: the user signs
\* in, registers and signs out, pages load the profile, the user navigates,
\* and the API answers.
UserNext ==
  \/ \E r \in ReqIds :
       \/ login(r)
       \/ \E a \in Tokens, rt \in Tokens : LoginOk(r, a, rt)
       \/ LoginFail(r)
       \/ register(r)
       \/ RegisterDone(r)
       \/ fetchUser(r)
       \/ FetchUserOk(r)
       \/ FetchUserFail(r)
       \/ ResponseOk(r)
       \/ \E status \in Statuses : ResponseError(r, status)
       \/ \E a \in Tokens, rt \in Tokens \cup {NoToken} : RefreshOk(r, a, rt)
       \/ RefreshFail(r)
  \/ logout
  \/ \E pathname \in Pathnames : Navigate(pathname)

UserSpec == AuthInit /\ [][UserNext]_vars

\* C25 (as claimed): whenever an access token or a refresh token is
\* stored, the refresh token alone included, the auth store holds
\* isAuthenticated true, and the route guard does not send a request for a
\* protected route to /login.
C25_CredentialMeansAuthenticated ==
  /\ [](HasCredential(cookies) => auth.isAuthenticated)
  /\ [][\A pathname \in Pathnames :
          (Navigate(pathname) /\ HasCredential(cookies)
             /\ \E p \in protectedRoutes : StartsWith(pathname, p))
          => route' = pathname]_vars

StatusShown == IF store.currentDebate = NullObj THEN "" ELSE store.currentDebate.status

\* C26: startDebate() on an open connection writes exactly one start_debate
\* frame and no other, sets isDebateRunning to true and leaves
\* currentDebate, its status included, as it is; the status shown turns
\* active only in the step that handles a debate_started event.
C26_StartIsOptimistic ==
  /\ [][(startDebate /\ IsOpen(store, sockets))
        => /\ sent' = [sent EXCEPT !["start_debate"] = @ + 1]
           /\ store' = [store EXCEPT !.isDebateRunning = TRUE]]_vars
  /\ [][(StatusShown # "active" /\ StatusShown' = "active")
        => \E c \in SocketIds :
             /\ Receive(c)
             /\ Head(sockets[c].inbox).type = "debate_started"]_vars

\* The start has been requested on the open connection and the server's
\* announcement has not arrived: the view runs, the status is still pending.
C26_Witness ==
  /\ sent["start_debate"] = 1
  /\ IsOpen(store, sockets)
  /\ store.isDebateRunning
  /\ StatusShown = "pending"
  /\ sockets[store.wsConnection].inbox # <<>>
  /\ Head(sockets[store.wsConnection].inbox).type = "debate_started"

\* C27 (as claimed): startDebate() called while isDebateRunning is true
\* writes no frame, so that no second start_debate frame is written before
\* a debate_paused, debate_completed or error event or a close has cleared
\* the flag.
C27_NoSecondStartWhileRunning ==
  [][(startDebate /\ store.isDebateRunning) => sent' = sent]_vars

\* C28: pauseDebate() on an open connection while the debate runs writes
\* exactly one pause_debate frame and sets isPausePending to true, leaving
\* isDebateRunning and currentDebate as they are; the status shown turns
\* paused only in the step that handles a debate_paused event, which also
\* clears isDebateRunning and isPausePending.
C28_PauseIsRequestAcknowledge ==
  /\ [][(pauseDebate /\ IsOpen(store, sockets) /\ store.isDebateRunning)
        => /\ sent' = [sent EXCEPT !["pause_debate"] = @ + 1]
           /\ store' = [store EXCEPT !.isPausePending = TRUE]]_vars
  /\ [][(StatusShown # "paused" /\ StatusShown' = "paused")
        => /\ \E c \in SocketIds : OnMessage(c, Plain("debate_paused"))
           /\ ~store'.isDebateRunning
           /\ ~store'.isPausePending]_vars

\* A pause has been requested in the running debate and is not yet
\* acknowledged: the view still runs and still shows status active.
C28_Witness ==
  /\ sent["pause_debate"] = 1
  /\ IsOpen(store, sockets)
  /\ store.isPausePending
  /\ store.isDebateRunning
  /\ StatusShown = "active"

\* One view of debate A in any of its statuses, running or not: the user
\* sends messages, and the server relays the messages of the debate's users.
HumanEvents == {HumanSpoke, Plain("debate_started"), Plain("debate_paused")}

HumanNext ==
  \/ store.wsConnection = NoSocket /\ connectWebSocket("A")
  \/ \E c \in SocketIds : TransportOpen(c) \/ TransportClose(c)
  \/ fetchDebate("A")
  \/ \E status \in DebateStatuses :
       \/ Answer("fetchDebate", "A", DebateOf("A", status, 0, NoSummary))
       \/ FetchDebateOk("A", DebateOf("A", status, 0, NoSummary))
  \/ sendHumanMessage
  \/ \E c \in SocketIds, data \in HumanEvents : OnMessage(c, data)

HumanSpec == Init /\ [][HumanNext]_vars

\* C29: sendHumanMessage on an open connection writes exactly one
\* human_message frame and no other, whatever the status of the debate and
\* the value of isDebateRunning, and changes nothing in the store; the list
\* of messages grows only in a step that handles a human_spoke event.
C29_SendHumanIsFrameOnly ==
  /\ [][(sendHumanMessage /\ IsOpen(store, sockets))
        => /\ sent' = [sent EXCEPT !["human_message"] = @ + 1]
           /\ store' = store]_vars
  /\ [][store'.messages # store.messages
        => /\ \E c \in SocketIds : OnMessage(c, HumanSpoke)
           /\ store'.messages = Append(store.messages, HumanMessage(HumanSpoke))]_vars

\* A message was sent in the completed debate while the view believed it
\* was running, and the server's human_spoke has put it into the view.
C29_Witness ==
  /\ sent["human_message"] = 1
  /\ IsOpen(store, sockets)
  /\ StatusShown = "completed"
  /\ store.isDebateRunning
  /\ Len(store.messages) = 1
  /\ store.messages[1].username = "u"

OpenSockets == {c \in SocketIds : sockets[c].readyState = "OPEN"}

\* C30: at most one of the connections the store created is open at any
\* time, and it is the store's wsConnection; connectWebSocket leaves the
\* connection it replaces neither connecting nor open.
C30_AtMostOneOpen ==
  /\ [](/\ Cardinality(OpenSockets) <= 1
        /\ \A c \in OpenSockets : store.wsConnection = c)
  /\ [][\A id \in DebateIds :
          (connectWebSocket(id) /\ store.wsConnection # NoSocket)
          => /\ store'.wsConnection # store.wsConnection
             /\ sockets'[store.wsConnection].readyState
                  \notin {"CONNECTING", "OPEN"}]_vars

\* The connection of debate B is open and current while the one of debate
\* A that it replaced is still in its closing handshake.
C30_Witness ==
  /\ store.wsConnection = 2
  /\ sockets[1].debateId = "A" /\ sockets[1].readyState = "CLOSING"
  /\ sockets[2].debateId = "B" /\ sockets[2].readyState = "OPEN"
  /\ store.isDebateRunning

\* C31: an agent_token event appends its token to the content of the live
\* fragment and changes nothing else in the store; when no fragment is
\* open, as for a token that arrives after the agent_spoke of its
\* utterance, it changes nothing at all.
C31_TokenAppendsOrIsIgnored ==
  [][\A c \in SocketIds, token \in TokenSet :
       OnMessage(c, AgentToken(token))
       => IF store.streamingMessage = NullObj
          THEN store' = store
          ELSE store' = [store EXCEPT
                 !.streamingMessage =
                   [agentName |-> store.streamingMessage.agentName,
                    content |-> store.streamingMessage.content \o token]]]_vars

\* A second utterance streams after the first one was finalized: the
\* fragment holds both of its tokens in order and the first message stays.
C31_Witness ==
  /\ store.streamingMessage # NullObj
  /\ store.streamingMessage.content = "Hi there"
  /\ fragTokens = <<"Hi", " there">>
  /\ Len(store.messages) = 1

\* C32: a human_spoke event appends exactly one Message, which carries the
\* sender's username and the event's content, to the end of messages and
\* changes nothing else: currentDebate (turn and status), the flags and a
\* fragment that is streaming stay as they are.
C32_HumanSpokeAppendsOne ==
  [][\A c \in SocketIds :
       OnMessage(c, HumanSpoke)
       => /\ Len(store'.messages) = Len(store.messages) + 1
          /\ SubSeq(store'.messages, 1, Len(store.messages)) = store.messages
          /\ Last(store'.messages).username = HumanSpoke.username
          /\ Last(store'.messages).agent_name = HumanSpoke.username
          /\ Last(store'.messages).content = HumanSpoke.content
          /\ Last(store'.messages).id = HumanSpoke.message_id
          /\ store' = [store EXCEPT !.messages = store'.messages]]_vars

\* A human message has arrived while an agent's fragment was streaming:
\* the message is in the view and the fragment goes on.
C32_Witness ==
  /\ Len(store.messages) = 1
  /\ store.messages[1] = HumanMessage(HumanSpoke)
  /\ store.streamingMessage # NullObj
  /\ store.streamingMessage.content = "Hi"
  /\ store.currentDebate # NullObj

\* The types the handler only logs or skips, and a type it does not know.
IgnoredTypes ==
  {"connected", "human_injected", "pong", "pause_acknowledged", "typing"}

\* One view of debate A over one connection at a time, with the server's
\* informational frames among those that change the view.
QuietEvents ==
  {Plain(type) : type \in IgnoredTypes}
    \cup {AgentThinking, AgentToken("Hi"), Plain("debate_started"),
          Plain("consensus_started")}

QuietNext ==
  \/ store.wsConnection = NoSocket /\ connectWebSocket("A")
  \/ \E c \in SocketIds : TransportOpen(c) \/ TransportClose(c)
  \/ fetchDebate("A")
  \/ Answer("fetchDebate", "A", DebateOf("A", "pending", 0, NoSummary))
  \/ FetchDebateOk("A", DebateOf("A", "pending", 0, NoSummary))
  \/ pauseDebate
  \/ \E c \in SocketIds, data \in QuietEvents : OnMessage(c, data)

QuietSpec == Init /\ [][QuietNext]_vars

\* C33: the events connected, human_injected, pong and pause_acknowledged
\* and an event of an unknown type leave the whole store as it is, and the
\* connection stays the store's open connection, so that the events that
\* follow are still handled.
C33_IgnoredEventsChangeNothing ==
  [][\A c \in SocketIds, type \in IgnoredTypes :
       OnMessage(c, Plain(type))
       => /\ store' = store
          /\ sockets' = sockets
          /\ Delivers(sockets'[c])
          /\ fragTokens' = fragTokens]_vars

\* A view with every kind of transient state set, on its open connection:
\* a pause is pending, the debate runs, a fragment streams and a conclusion
\* is being drawn. An ignored event delivered here has all of it to keep.
C33_Witness ==
  /\ IsOpen(store, sockets)
  /\ store.isPausePending
  /\ store.isDebateRunning
  /\ store.isGeneratingConsensus
  /\ store.streamingMessage # NullObj
  /\ store.streamingMessage.content = "Hi"
  /\ StatusShown = "active"

(***************************************************************************)
(* Further claims about lib/api and the REST baseline                      *)
(***************************************************************************)

\* C34: when a call outside the auth paths gets its first 401 and no
\* refresh token is stored, no refresh call is issued: in that same step
\* both credentials are absent, the call is rejected and it is neither
\* re-sent nor refreshed; it stays rejected.
C34_NoRefreshTokenFailsFast ==
  [][\A r \in ReqIds :
       /\ (/\ ResponseError(r, 401)
           /\ ~isAuthPath(req[r].url)
           /\ ~req[r]._retry
           /\ cookies.refresh_token = NoToken)
          => /\ req'[r].st = "rejected"
             /\ req'[r].sends = req[r].sends
             /\ req'[r].refreshes = req[r].refreshes
             /\ cookies'.access_token = NoToken
             /\ cookies'.refresh_token = NoToken
             /\ Refreshing' = Refreshing
       /\ (req[r].st = "rejected" /\ req[r].refreshes = 0)
          => req'[r] = req[r]]_vars

\* A call that carried an access token was rejected on its first 401
\* without any refresh call, and no credential is left.
C34_Witness ==
  \E r \in ReqIds :
    /\ req[r].st = "rejected" /\ req[r]._retry
    /\ req[r].sends = 1 /\ req[r].refreshes = 0
    /\ ~isAuthPath(req[r].url)
    /\ cookies = ClearTokens(cookies)
    /\ Refreshing = {}

\* ---- the list of debates -----------------------------------------------------

\* Debates the list holds.
MaxDebates == 2

NoId == ""

\* fetchDebates(), up to `await api.get`.
fetchDebates ==
  /\ store' = [store EXCEPT !.isLoading = TRUE]
  /\ pending' = pending \cup {Request("fetchDebates", NoId)}
  /\ UNCHANGED <<sockets, sent, server, fragTokens, signalled, thrown, authVars>>

\* The response of fetchDebates() arrives: try body, then finally.
FetchDebatesOk(data) ==
  /\ Response("fetchDebates", NoId, data) \in pending
  /\ store' = [store EXCEPT !.debates = data, !.isLoading = FALSE]
  /\ pending' = pending \ {Response("fetchDebates", NoId, data)}
  /\ UNCHANGED <<sockets, sent, server, fragTokens, signalled, thrown, authVars>>

\* The call of fetchDebates() fails: catch (logged, nothing rethrown: the
\* promise resolves), then finally.
FetchDebatesFail ==
  /\ \E call \in InFlight("fetchDebates", NoId) : pending' = pending \ {call}
  /\ store' = [store EXCEPT !.isLoading = FALSE]
  /\ thrown' = FALSE
  /\ UNCHANGED <<sockets, sent, server, fragTokens, signalled, authVars>>

\* createDebate(data), up to `await api.post`.
createDebate ==
  /\ store' = [store EXCEPT !.isLoading = TRUE]
  /\ pending' = pending \cup {Request("createDebate", NoId)}
  /\ UNCHANGED <<sockets, sent, server, fragTokens, signalled, thrown, authVars>>

\* The response of createDebate arrives: the debate is put in front of the
\* list and returned; finally.
CreateDebateOk(debate) ==
  /\ Response("createDebate", NoId, debate) \in pending
  /\ Len(store.debates) < MaxDebates
  /\ store' = [store EXCEPT !.debates = <<debate>> \o @, !.isLoading = FALSE]
  /\ pending' = pending \ {Response("createDebate", NoId, debate)}
  /\ UNCHANGED <<sockets, sent, server, fragTokens, signalled, thrown, authVars>>

\* The call of createDebate fails: catch (logged, `throw error`: the
\* promise rejects), then finally.
CreateDebateFail ==
  /\ \E call \in InFlight("createDebate", NoId) : pending' = pending \ {call}
  /\ store' = [store EXCEPT !.isLoading = FALSE]
  /\ thrown' = TRUE
  /\ UNCHANGED <<sockets, sent, server, fragTokens, signalled, authVars>>

\* deleteDebate(id), up to `await api.delete`.
deleteDebate(id) ==
  /\ pending' = pending \cup {Request("deleteDebate", id)}
  /\ UNCHANGED <<store, sockets, sent, server, fragTokens, signalled, thrown, authVars>>

\* state.debates.filter((d) => d.id !== id)
WithoutDebate(debates, id) == SelectSeq(debates, LAMBDA d : d.id # id)

\* The response of deleteDebate(id) arrives.
DeleteDebateOk(id) ==
  /\ Response("deleteDebate", id, NullObj) \in pending
  /\ store' = [store EXCEPT !.debates = WithoutDebate(@, id)]
  /\ pending' = pending \ {Response("deleteDebate", id, NullObj)}
  /\ UNCHANGED <<sockets, sent, server, fragTokens, signalled, thrown, authVars>>

\* The call of deleteDebate(id) fails: catch (logged, `throw error`: the
\* promise rejects).
DeleteDebateFail(id) ==
  /\ \E call \in InFlight("deleteDebate", id) : pending' = pending \ {call}
  /\ thrown' = TRUE
  /\ UNCHANGED <<store, sockets, sent, server, fragTokens, signalled, authVars>>

\* The REST operations of the debate store, each answered or failing in
\* its own time: the list page, the form of a new debate and the page of
\* debate A, which has played one turn.
RestNext ==
  \/ fetchDebates
  \/ Answer("fetchDebates", NoId, <<DebateOf("A", "active", 1, NoSummary)>>)
  \/ FetchDebatesOk(<<DebateOf("A", "active", 1, NoSummary)>>)
  \/ FetchDebatesFail
  \/ createDebate
  \/ Answer("createDebate", NoId, DebateOf("B", "pending", 0, NoSummary))
  \/ CreateDebateOk(DebateOf("B", "pending", 0, NoSummary))
  \/ CreateDebateFail
  \/ deleteDebate("B")
  \/ Answer("deleteDebate", "B", NullObj)
  \/ DeleteDebateOk("B")
  \/ DeleteDebateFail("B")
  \/ fetchDebate("A")
  \/ Answer("fetchDebate", "A", DebateOf("A", "active", 1, NoSummary))
  \/ FetchDebateOk("A", DebateOf("A", "active", 1, NoSummary))
  \/ FetchDebateFail("A")
  \/ fetchMessages("A")
  \/ Answer("fetchMessages", "A", ServerMessages(1))
  \/ FetchMessagesOk("A", ServerMessages(1))
  \/ FetchMessagesFail("A")

RestSpec == Init /\ [][RestNext]_vars

\* The step is the failure of one of the store's REST operations.
RestFailure ==
  \/ FetchDebatesFail
  \/ CreateDebateFail
  \/ DeleteDebateFail("B")
  \/ FetchDebateFail("A")
  \/ FetchMessagesFail("A")

\* C35 (as claimed): when the request behind fetchDebates, fetchDebate,
\* fetchMessages, createDebate or deleteDebate fails, the promise the
\* operation returned is rejected, debates, currentDebate and messages are
\* left as they were, and an operation that raised isLoading lowers it.
C35_RestFailuresPropagate ==
  [][RestFailure
     => /\ thrown'
        /\ store'.debates = store.debates
        /\ store'.currentDebate = store.currentDebate
        /\ store'.messages = store.messages
        /\ (FetchDebatesFail \/ CreateDebateFail \/ FetchDebateFail("A"))
             => ~store'.isLoading]_vars

\* The completed debate A as the server returns it, with and without a
\* conclusion.
Snapshots ==
  {DebateOf("A", "completed", MaxTurns, summary) :
     summary \in SummarySet \cup {NoSummary}}

SeedEvents ==
  {AgentThinking, HumanSpoke, Plain("debate_started"), ConsensusToken("A")}

\* One view of debate A whose baseline is fetched, and fetched again, while
\* events change the rest of the view.
SeedNext ==
  \/ store.wsConnection = NoSocket /\ connectWebSocket("A")
  \/ \E c \in SocketIds : TransportOpen(c) \/ TransportClose(c)
  \/ \E c \in SocketIds, data \in SeedEvents : OnMessage(c, data)
  \/ pauseDebate
  \/ fetchDebate("A")
  \/ \E debate \in Snapshots :
       \/ Answer("fetchDebate", "A", debate)
       \/ FetchDebateOk("A", debate)

SeedSpec == Init /\ [][SeedNext]_vars

\* C36: a successful fetchDebate(id) sets currentDebate to the response
\* and consensusSummary to the response's summary, or to the empty string
\* when it has none, and lowers isLoading; messages, streamingMessage and
\* the running, pause and consensus flags stay as they are.
C36_FetchDebateSeedsSummary ==
  [][\A debate \in Snapshots :
       FetchDebateOk("A", debate)
       => /\ store'.currentDebate = debate
          /\ store'.consensusSummary =
               (IF debate.summary # NoSummary THEN debate.summary ELSE "")
          /\ store' = [store EXCEPT !.currentDebate = store'.currentDebate,
                                    !.consensusSummary = store'.consensusSummary,
                                    !.isLoading = FALSE]]_vars

\* The baseline with a conclusion has been loaded into a view that holds a
\* message, a streaming fragment and a pending pause in a running debate.
C36_Witness ==
  /\ store.currentDebate # NullObj
  /\ store.currentDebate.summary = "Final"
  /\ store.consensusSummary = "Final"
  /\ ~store.isLoading
  /\ Len(store.messages) = 1
  /\ store.streamingMessage # NullObj
  /\ store.isDebateRunning /\ store.isPausePending

\* One view of the completed debate A, opened by its page, while the
\* orchestrator draws the conclusion: the baseline responses and the
\* frames of the conclusion arrive when they arrive.
DraftNext ==
  \/ store.wsConnection = NoSocket /\ OpenView("A")
  \/ \E c \in SocketIds : TransportOpen(c) \/ TransportClose(c)
  \/ Answer("fetchDebate", "A", DebateOf("A", "completed", MaxTurns, server.summary))
  \/ \E debate \in Snapshots : FetchDebateOk("A", debate)
  \/ Answer("fetchMessages", "A", <<>>)
  \/ FetchMessagesOk("A", <<>>)
  \/ \E toks \in Drafts, summary \in SummarySet : Conclude(toks, summary)
  \/ \E c \in SocketIds : Receive(c)

DraftSpec == Init /\ [][DraftNext]_vars

\* C37 (as claimed): a fetchDebate response that arrives once the
\* conclusion is being drawn, or has been drawn, in the view leaves
\* consensusSummary as the events made it: the tokens received so far, or
\* the final summary.
C37_BaselineKeepsDraft ==
  [][\A debate \in Snapshots :
       (/\ FetchDebateOk("A", debate)
        /\ (store.isGeneratingConsensus \/ store.consensusSummary # ""))
       => store'.consensusSummary = store.consensusSummary]_vars

\* The refresh call of request r succeeded: the request was re-sent.
Refreshed(r) == req[r].refreshes = 1 /\ req[r].sends = 2

\* C38 (as claimed): once two calls are refreshing at the same time, each
\* with its own refresh call, then when both have settled and the refresh
\* of at least one succeeded, the token store holds an access token and a
\* refresh token: the failure of the other refresh has not removed them.
C38_FailedRefreshSparesStoredPair ==
  [](Cardinality(Refreshing) = NReq
     => []((/\ \A r \in ReqIds : Settled(r)
            /\ \E r \in ReqIds : Refreshed(r))
           => (cookies.access_token # NoToken /\ cookies.refresh_token # NoToken)))

\* C39 (as claimed): a fetchDebate response for a debate other than the
\* one the current connection belongs to, that is, for a view the user has
\* left, is not applied: currentDebate stays as it is.
C39_StaleBaselineIgnored ==
  [][\A id \in DebateIds :
       (/\ FetchDebateOk(id, DebateOf(id, "active", 0, NoSummary))
        /\ store.wsConnection # NoSocket
        /\ sockets[store.wsConnection].debateId # id)
       => store'.currentDebate = store.currentDebate]_vars

=============================================================================
